---- MODULE Spec2Model ----
(***************************************************************************)
(* SPIClass (libraries/SPI/src/SPI.cpp): the Arduino SPI wrapper of the    *)
(* STM32 core.  The object holds the pin names of one SPI peripheral and   *)
(* the current transfer settings; every method forwards to the driver      *)
(* (spi_init, spi_deinit, spi_getClkFreq, spi_transfer).  The driver is    *)
(* external: the model records each call made to it, with its arguments,   *)
(* and draws what it answers from small sets.                              *)
(***************************************************************************)
EXTENDS Integers, Sequences, FiniteSets, TLC

VARIABLES
  spi,          \* _spi: pin_miso, pin_mosi, pin_sclk, pin_ssel
  handleState,  \* _spi.handle.State
  spiSettings,  \* _spiSettings: clk, dMode, bOrder, noReceive
  lastOp,       \* the method called last, with its arguments
  drv,          \* the driver calls that method made, in order
  hal,          \* what the driver answered during that method
  ret,          \* the value that method returned
  initCalled,   \* some spi_init call has reached the driver
  begun         \* begin() or beginTransaction() has been called

vars == <<spi, handleState, spiSettings, lastOp, drv, hal, ret, initCalled, begun>>

----------------------------------------------------------------------------
(* Bounds of the model. *)

MaxCount == 1   \* buffer transfers are called with _count in 0..MaxCount
MaxBuf == 1     \* buffer addresses are 1..MaxBuf; 0 is NULL

----------------------------------------------------------------------------
(* Constants of the headers the file includes. *)

SPI_MODE0 == 0
SPI_MODE1 == 1
SPI_MODE2 == 2
SPI_MODE3 == 3

SPI_MODE_0 == "SPI_MODE_0"
SPI_MODE_1 == "SPI_MODE_1"
SPI_MODE_2 == "SPI_MODE_2"
SPI_MODE_3 == "SPI_MODE_3"

\* clock polarity and clock phase of the modes setDataMode accepts
ModeCPOL(mode) == IF mode \in {SPI_MODE2, SPI_MODE3} THEN 1 ELSE 0
ModeCPHA(mode) == IF mode \in {SPI_MODE1, SPI_MODE3} THEN 1 ELSE 0

\* clock polarity and clock phase the driver gives its mode constants
DriverCPOL(dMode) == IF dMode \in {SPI_MODE_2, SPI_MODE_3} THEN 1 ELSE 0
DriverCPHA(dMode) == IF dMode \in {SPI_MODE_1, SPI_MODE_3} THEN 1 ELSE 0

LSBFIRST == 0
MSBFIRST == 1

SPI_SPEED_CLOCK_DEFAULT == 4000000
SPI_TRANSFER_TIMEOUT == 1000

NULL == 0

NC == <<"NC">>
NUM_DIGITAL_PINS == 20
MISO == 12
MOSI == 11
SCK == 13

digitalPinToPinName(p) ==
  IF p < NUM_DIGITAL_PINS THEN <<"PinName", p>> ELSE NC

HAL_SPI_STATE_RESET == "HAL_SPI_STATE_RESET"
HAL_SPI_STATE_READY == "HAL_SPI_STATE_READY"

DefaultSettings ==
  [clk |-> SPI_SPEED_CLOCK_DEFAULT, dMode |-> SPI_MODE_0,
   bOrder |-> MSBFIRST, noReceive |-> FALSE]

----------------------------------------------------------------------------
(* The inputs the methods are called with and the answers of the driver. *)

DriverModes == {SPI_MODE_0, SPI_MODE_1, SPI_MODE_2, SPI_MODE_3}
BitOrders == {LSBFIRST, MSBFIRST}
ClkInputs == {1000000}
SettingsInputs ==
  [clk : ClkInputs, dMode : DriverModes, bOrder : BitOrders, noReceive : BOOLEAN]
ModeInputs == {SPI_MODE0, SPI_MODE1, SPI_MODE2, SPI_MODE3, 4, 255}
DividerInputs == {0, 1, 2, 255}
ClkFreqs == {255, 48000000}
ByteInputs == {165, 255}
WordInputs == {4660, 255}
RxBytes == {90}
RxWords == {48879}
StatusSet == {"SPI_OK", "SPI_TIMEOUT"}
BufInputs == 0..MaxBuf
CountInputs == 0..MaxCount
InterruptInputs == {0}
CtorInputs == {<<3, 4, 5, 10>>, <<3, 4, 5, NUM_DIGITAL_PINS>>}

NoHal == [status |-> "none", wrote |-> FALSE, rx |-> 0, freq |-> 0]
NoReturn == <<>>

----------------------------------------------------------------------------
(* The driver calls, as the methods make them.  obj is the state of the      *)
(* handle inside the _spi the call is handed.                               *)

spi_init(obj, clk, dMode, bOrder) ==
  [fn |-> "spi_init", obj |-> obj, args |-> <<clk, dMode, bOrder>>]

spi_deinit(obj) == [fn |-> "spi_deinit", obj |-> obj, args |-> <<>>]

spi_getClkFreq(obj) == [fn |-> "spi_getClkFreq", obj |-> obj, args |-> <<>>]

spi_transfer(obj, tx, rx, len, timeout, skipReceive) ==
  [fn |-> "spi_transfer", obj |-> obj,
   args |-> <<tx, rx, len, timeout, skipReceive>>]

\* the handle as the driver leaves it
AfterInit == HAL_SPI_STATE_READY
AfterDeinit == HAL_SPI_STATE_RESET

----------------------------------------------------------------------------
(* Construction. *)

SPIClass_default ==
  spi = [pin_miso |-> digitalPinToPinName(MISO),
         pin_mosi |-> digitalPinToPinName(MOSI),
         pin_sclk |-> digitalPinToPinName(SCK),
         pin_ssel |-> NC]

SPIClass_pins(mosi, miso, sclk, ssel) ==
  spi = [pin_miso |-> digitalPinToPinName(miso),
         pin_mosi |-> digitalPinToPinName(mosi),
         pin_sclk |-> digitalPinToPinName(sclk),
         pin_ssel |-> digitalPinToPinName(ssel)]

Init ==
  /\ \/ SPIClass_default
     \/ \E a \in CtorInputs : SPIClass_pins(a[1], a[2], a[3], a[4])
  /\ handleState = HAL_SPI_STATE_RESET
  /\ spiSettings = DefaultSettings
  /\ lastOp = [op |-> "SPIClass", args |-> <<>>]
  /\ drv = <<>>
  /\ hal = NoHal
  /\ ret = NoReturn
  /\ initCalled = FALSE
  /\ begun = FALSE

----------------------------------------------------------------------------
(* begin / beginTransaction / endTransaction / end *)

begin_NoInit ==
  /\ handleState' = HAL_SPI_STATE_RESET
  /\ drv' = <<>>
  /\ lastOp' = [op |-> "begin", args |-> <<>>]
  /\ hal' = NoHal
  /\ ret' = NoReturn
  /\ begun' = TRUE
  /\ UNCHANGED <<spi, spiSettings, initCalled>>

begin ==
  /\ handleState' = AfterInit
  /\ drv' = <<spi_init(HAL_SPI_STATE_RESET, spiSettings.clk,
                       spiSettings.dMode, spiSettings.bOrder)>>
  /\ lastOp' = [op |-> "begin", args |-> <<>>]
  /\ hal' = NoHal
  /\ ret' = NoReturn
  /\ initCalled' = TRUE
  /\ begun' = TRUE
  /\ UNCHANGED <<spi, spiSettings>>

beginTransaction_DefaultClk ==
  \E settings \in SettingsInputs :
    /\ spiSettings' = [clk |-> settings.clk, dMode |-> settings.dMode,
                       bOrder |-> settings.bOrder,
                       noReceive |-> settings.noReceive]
    /\ handleState' = AfterInit
    /\ drv' = <<spi_init(handleState, SPI_SPEED_CLOCK_DEFAULT,
                         spiSettings'.dMode, spiSettings'.bOrder)>>
    /\ lastOp' = [op |-> "beginTransaction", args |-> <<settings>>]
    /\ hal' = NoHal
    /\ ret' = NoReturn
    /\ initCalled' = TRUE
    /\ begun' = TRUE
    /\ UNCHANGED spi

beginTransaction ==
  \E settings \in SettingsInputs :
    /\ spiSettings' = [clk |-> settings.clk, dMode |-> settings.dMode,
                       bOrder |-> settings.bOrder,
                       noReceive |-> settings.noReceive]
    /\ handleState' = AfterInit
    /\ drv' = <<spi_init(handleState, spiSettings'.clk,
                         spiSettings'.dMode, spiSettings'.bOrder)>>
    /\ lastOp' = [op |-> "beginTransaction", args |-> <<settings>>]
    /\ hal' = NoHal
    /\ ret' = NoReturn
    /\ initCalled' = TRUE
    /\ begun' = TRUE
    /\ UNCHANGED spi

endTransaction ==
  /\ lastOp' = [op |-> "endTransaction", args |-> <<>>]
  /\ drv' = <<>>
  /\ hal' = NoHal
  /\ ret' = NoReturn
  /\ UNCHANGED <<spi, handleState, spiSettings, initCalled, begun>>

end_ResetSettings ==
  /\ handleState' = AfterDeinit
  /\ spiSettings' = DefaultSettings
  /\ drv' = <<spi_deinit(handleState)>>
  /\ lastOp' = [op |-> "end", args |-> <<>>]
  /\ hal' = NoHal
  /\ ret' = NoReturn
  /\ UNCHANGED <<spi, initCalled, begun>>

end ==
  /\ handleState' = AfterDeinit
  /\ drv' = <<spi_deinit(handleState)>>
  /\ lastOp' = [op |-> "end", args |-> <<>>]
  /\ hal' = NoHal
  /\ ret' = NoReturn
  /\ UNCHANGED <<spi, spiSettings, initCalled, begun>>

----------------------------------------------------------------------------
(* The deprecated setters. *)

setBitOrder ==
  \E bitOrder \in BitOrders :
    /\ spiSettings' = [spiSettings EXCEPT !.bOrder = bitOrder]
    /\ handleState' = AfterInit
    /\ drv' = <<spi_init(handleState, spiSettings'.clk,
                         spiSettings'.dMode, spiSettings'.bOrder)>>
    /\ lastOp' = [op |-> "setBitOrder", args |-> <<bitOrder>>]
    /\ hal' = NoHal
    /\ ret' = NoReturn
    /\ initCalled' = TRUE
    /\ UNCHANGED <<spi, begun>>

\* the if / else-if chain of setDataMode: the dMode it leaves stored
DataMode_Mode1Mode2Swapped(mode, dMode) ==
  IF SPI_MODE0 = mode THEN SPI_MODE_0
  ELSE IF SPI_MODE1 = mode THEN SPI_MODE_2
  ELSE IF SPI_MODE2 = mode THEN SPI_MODE_1
  ELSE IF SPI_MODE3 = mode THEN SPI_MODE_3
  ELSE dMode

DataMode_DefaultsToMode0(mode, dMode) ==
  IF SPI_MODE0 = mode THEN SPI_MODE_0
  ELSE IF SPI_MODE1 = mode THEN SPI_MODE_1
  ELSE IF SPI_MODE2 = mode THEN SPI_MODE_2
  ELSE IF SPI_MODE3 = mode THEN SPI_MODE_3
  ELSE SPI_MODE_0

DataMode(mode, dMode) ==
  IF SPI_MODE0 = mode THEN SPI_MODE_0
  ELSE IF SPI_MODE1 = mode THEN SPI_MODE_1
  ELSE IF SPI_MODE2 = mode THEN SPI_MODE_2
  ELSE IF SPI_MODE3 = mode THEN SPI_MODE_3
  ELSE dMode

setDataMode ==
  \E mode \in ModeInputs :
    /\ spiSettings' =
         [spiSettings EXCEPT !.dMode = DataMode(mode, spiSettings.dMode)]
    /\ handleState' = AfterInit
    /\ drv' = <<spi_init(handleState, spiSettings'.clk,
                         spiSettings'.dMode, spiSettings'.bOrder)>>
    /\ lastOp' = [op |-> "setDataMode", args |-> <<mode>>]
    /\ hal' = NoHal
    /\ ret' = NoReturn
    /\ initCalled' = TRUE
    /\ UNCHANGED <<spi, begun>>

\* the clock setClockDivider stores, freq being what spi_getClkFreq returns
\* (uint32_t / uint8_t: an unsigned division, which cannot overflow)
Clock_NoDefault(divider, freq) ==
  IF divider <= 1 THEN freq ELSE freq \div divider

Clock(divider, freq) ==
  IF divider = 0 THEN SPI_SPEED_CLOCK_DEFAULT
  ELSE freq \div divider

setClockDivider ==
  \E divider \in DividerInputs :
    \E freq \in (IF divider = 0 THEN {0} ELSE ClkFreqs) :
      /\ spiSettings' = [spiSettings EXCEPT !.clk = Clock(divider, freq)]
      /\ handleState' = AfterInit
      /\ drv' = (IF divider = 0 THEN <<>> ELSE <<spi_getClkFreq(handleState)>>)
                \o <<spi_init(handleState, spiSettings'.clk,
                              spiSettings'.dMode, spiSettings'.bOrder)>>
      /\ lastOp' = [op |-> "setClockDivider", args |-> <<divider>>]
      /\ hal' = [NoHal EXCEPT !.freq = freq]
      /\ ret' = NoReturn
      /\ initCalled' = TRUE
      /\ UNCHANGED <<spi, begun>>

----------------------------------------------------------------------------
(* The transfers.  The driver's answer h gives the status it returns and   *)
(* whether, and what, it wrote into the receive buffer.                    *)

TransferAnswers(rxs) ==
  {[status |-> st, wrote |-> w, rx |-> r, freq |-> 0] :
     st \in StatusSet, w \in {TRUE}, r \in rxs}
  \cup {[status |-> st, wrote |-> FALSE, rx |-> 0, freq |-> 0] : st \in StatusSet}

\* the receive buffer after the call, given what it held before
RxBuffer(before, h) == IF h.wrote THEN h.rx ELSE before

transfer_EchoesData ==
  \E data \in ByteInputs :
    \E h \in TransferAnswers(RxBytes) :
      /\ drv' = <<spi_transfer(handleState, data, "rx_buffer", 1,
                               SPI_TRANSFER_TIMEOUT, spiSettings.noReceive)>>
      /\ ret' = data
      /\ hal' = h
      /\ lastOp' = [op |-> "transfer", args |-> <<data>>]
      /\ UNCHANGED <<spi, handleState, spiSettings, initCalled, begun>>

transfer ==
  \E data \in ByteInputs :
    \E h \in TransferAnswers(RxBytes) :
      /\ drv' = <<spi_transfer(handleState, data, "rx_buffer", 1,
                               SPI_TRANSFER_TIMEOUT, spiSettings.noReceive)>>
      /\ ret' = RxBuffer(0, h)
      /\ hal' = h
      /\ lastOp' = [op |-> "transfer", args |-> <<data>>]
      /\ UNCHANGED <<spi, handleState, spiSettings, initCalled, begun>>

\* ((w & 0xff00) >> 8) | ((w & 0xff) << 8), stored in a uint16_t
ByteSwap16_LowByteLost(w) == ((w \div 256) % 256) % 65536

ByteSwap16(w) == (((w \div 256) % 256) + ((w % 256) * 256)) % 65536

transfer16 ==
  \E data \in WordInputs :
    \E h \in TransferAnswers(RxWords) :
      LET sent == IF spiSettings.bOrder # 0 THEN ByteSwap16(data) ELSE data
          rx_buffer == RxBuffer(0, h)
      IN
      /\ drv' = <<spi_transfer(handleState, sent, "rx_buffer", 2,
                               SPI_TRANSFER_TIMEOUT, spiSettings.noReceive)>>
      /\ ret' = IF spiSettings.bOrder # 0 THEN ByteSwap16(rx_buffer)
                ELSE rx_buffer
      /\ hal' = h
      /\ lastOp' = [op |-> "transfer16", args |-> <<data>>]
      /\ UNCHANGED <<spi, handleState, spiSettings, initCalled, begun>>

\* the conditions under which the buffer transfers call the driver
BufferGuard(buf, count) == (count # 0) /\ (buf # NULL)

BufferGuard2_BufinUnchecked(bufout, bufin, count) ==
  (count # 0) /\ (bufout # NULL)

BufferGuard2(bufout, bufin, count) ==
  (count # 0) /\ (bufout # NULL) /\ (bufin # NULL)

transfer_buf ==
  \E buf \in BufInputs, count \in CountInputs :
    \E st \in (IF BufferGuard(buf, count) THEN StatusSet ELSE {"none"}) :
      /\ drv' = IF BufferGuard(buf, count)
                THEN <<spi_transfer(handleState, buf, buf, count,
                                    SPI_TRANSFER_TIMEOUT, spiSettings.noReceive)>>
                ELSE <<>>
      /\ hal' = [NoHal EXCEPT !.status = st]
      /\ ret' = NoReturn
      /\ lastOp' = [op |-> "transfer_buf", args |-> <<buf, count>>]
      /\ UNCHANGED <<spi, handleState, spiSettings, initCalled, begun>>

transfer_bufs ==
  \E bufout \in BufInputs, bufin \in BufInputs, count \in CountInputs :
    \E st \in (IF BufferGuard2(bufout, bufin, count) THEN StatusSet ELSE {"none"}) :
      /\ drv' = IF BufferGuard2(bufout, bufin, count)
                THEN <<spi_transfer(handleState, bufout, bufin, count,
                                    SPI_TRANSFER_TIMEOUT, spiSettings.noReceive)>>
                ELSE <<>>
      /\ hal' = [NoHal EXCEPT !.status = st]
      /\ ret' = NoReturn
      /\ lastOp' = [op |-> "transfer_bufs", args |-> <<bufout, bufin, count>>]
      /\ UNCHANGED <<spi, handleState, spiSettings, initCalled, begun>>

----------------------------------------------------------------------------
(* The interrupt functions, which are not implemented. *)

usingInterrupt ==
  \E interruptNumber \in InterruptInputs :
    /\ lastOp' = [op |-> "usingInterrupt", args |-> <<interruptNumber>>]
    /\ drv' = <<>>
    /\ hal' = NoHal
    /\ ret' = NoReturn
    /\ UNCHANGED <<spi, handleState, spiSettings, initCalled, begun>>

attachInterrupt ==
  /\ lastOp' = [op |-> "attachInterrupt", args |-> <<>>]
  /\ drv' = <<>>
  /\ hal' = NoHal
  /\ ret' = NoReturn
  /\ UNCHANGED <<spi, handleState, spiSettings, initCalled, begun>>

detachInterrupt ==
  /\ lastOp' = [op |-> "detachInterrupt", args |-> <<>>]
  /\ drv' = <<>>
  /\ hal' = NoHal
  /\ ret' = NoReturn
  /\ UNCHANGED <<spi, handleState, spiSettings, initCalled, begun>>

----------------------------------------------------------------------------
Next ==
  \/ begin
  \/ beginTransaction
  \/ endTransaction
  \/ end
  \/ setBitOrder
  \/ setDataMode
  \/ setClockDivider
  \/ transfer
  \/ transfer16
  \/ transfer_buf
  \/ transfer_bufs
  \/ usingInterrupt
  \/ attachInterrupt
  \/ detachInterrupt

Spec == Init /\ [][Next]_vars

----------------------------------------------------------------------------
(* What the properties below read off the state. *)

Stored(s) == <<s.clk, s.dMode, s.bOrder>>
InitCalls == SelectSeq(drv, LAMBDA c : c.fn = "spi_init")
TransferCalls == SelectSeq(drv, LAMBDA c : c.fn = "spi_transfer")
ValidModes == {SPI_MODE0, SPI_MODE1, SPI_MODE2, SPI_MODE3}
ConfigOps == {"beginTransaction", "setBitOrder", "setDataMode", "setClockDivider"}
TransferOps == {"transfer", "transfer16", "transfer_buf", "transfer_bufs"}
\* v is w with its high byte and its low byte exchanged
Exchanged(w, v) == (v \div 256 = w % 256) /\ (v % 256 = w \div 256)

----------------------------------------------------------------------------
\* C1: every spi_init call receives the clock, data mode and bit order that
\* are stored when it is made: beginTransaction(s) calls spi_init once with
\* s.clk, s.dMode, s.bOrder, and begin() calls spi_init once with the three
\* values stored before it, which it leaves stored.
C1_InitCallsCarryStored ==
  /\ \A i \in DOMAIN drv :
       drv[i].fn = "spi_init" => drv[i].args = Stored(spiSettings)
  /\ lastOp.op \in ConfigOps \cup {"begin"} => Len(InitCalls) = 1
  /\ lastOp.op = "beginTransaction" =>
       InitCalls[1].args = Stored(lastOp.args[1])

C1_BeginPassesStored ==
  (lastOp'.op = "begin") =>
     /\ drv' = <<spi_init(HAL_SPI_STATE_RESET, spiSettings.clk,
                          spiSettings.dMode, spiSettings.bOrder)>>
     /\ spiSettings' = spiSettings

----------------------------------------------------------------------------
----------------------------------------------------------------------------
\* C3: transfer(buf, count) makes no spi_transfer call when count is 0 or
\* buf is null, transfer(bufout, bufin, count) makes none when count is 0
\* or either buffer is null; otherwise each makes exactly one spi_transfer
\* call, with the given buffers and the given count.
C3_NullOrEmptySkipsDriver ==
  /\ lastOp.op = "transfer_buf" =>
       LET buf == lastOp.args[1]
           count == lastOp.args[2]
       IN IF count = 0 \/ buf = NULL
          THEN drv = <<>>
          ELSE /\ Len(drv) = 1
               /\ drv[1].fn = "spi_transfer"
               /\ drv[1].args[1] = buf
               /\ drv[1].args[2] = buf
               /\ drv[1].args[3] = count
  /\ lastOp.op = "transfer_bufs" =>
       LET bufout == lastOp.args[1]
           bufin == lastOp.args[2]
           count == lastOp.args[3]
       IN IF count = 0 \/ bufout = NULL \/ bufin = NULL
          THEN drv = <<>>
          ELSE /\ Len(drv) = 1
               /\ drv[1].fn = "spi_transfer"
               /\ drv[1].args[1] = bufout
               /\ drv[1].args[2] = bufin
               /\ drv[1].args[3] = count

C3_Witness ==
  /\ lastOp.op = "transfer_bufs"
  /\ lastOp.args = <<1, NULL, 1>>
  /\ drv = <<>>
  /\ initCalled

----------------------------------------------------------------------------
\* C4: setDataMode(mode) with one of the four standard modes stores the
\* driver constant of the same clock polarity and phase (SPI_MODE0 ->
\* SPI_MODE_0, SPI_MODE1 -> SPI_MODE_1, SPI_MODE2 -> SPI_MODE_2, SPI_MODE3 ->
\* SPI_MODE_3) and hands that constant to the spi_init call it makes.
C4_Expected(mode) ==
  CASE mode = SPI_MODE0 -> SPI_MODE_0
    [] mode = SPI_MODE1 -> SPI_MODE_1
    [] mode = SPI_MODE2 -> SPI_MODE_2
    [] mode = SPI_MODE3 -> SPI_MODE_3

C4_StandardModesMapped ==
  (lastOp.op = "setDataMode" /\ lastOp.args[1] \in ValidModes) =>
    LET mode == lastOp.args[1]
    IN /\ spiSettings.dMode = C4_Expected(mode)
       /\ DriverCPOL(spiSettings.dMode) = ModeCPOL(mode)
       /\ DriverCPHA(spiSettings.dMode) = ModeCPHA(mode)
       /\ Len(InitCalls) = 1
       /\ InitCalls[1].args[2] = C4_Expected(mode)

C4_Witness ==
  /\ lastOp.op = "setDataMode"
  /\ lastOp.args[1] = SPI_MODE2
  /\ spiSettings.dMode = SPI_MODE_2
  /\ drv[1].args = <<1000000, SPI_MODE_2, LSBFIRST>>

----------------------------------------------------------------------------
\* C5: setClockDivider(d) stores SPI_SPEED_CLOCK_DEFAULT when d is 0 and,
\* for d in 1..255, the integer quotient of the frequency spi_getClkFreq
\* reports by d; it then calls spi_init once with that clock, and with the
\* data mode and the bit order, which it leaves unchanged.
C5_ClockStored ==
  lastOp.op = "setClockDivider" =>
    LET d == lastOp.args[1]
        clk == spiSettings.clk
    IN /\ d = 0 => clk = SPI_SPEED_CLOCK_DEFAULT
       /\ d \in 1..255 =>
            /\ drv[1].fn = "spi_getClkFreq"
            /\ clk * d <= hal.freq
            /\ hal.freq < (clk + 1) * d
       /\ Len(InitCalls) = 1
       /\ drv[Len(drv)].fn = "spi_init"
       /\ drv[Len(drv)].args = <<clk, spiSettings.dMode, spiSettings.bOrder>>

C5_ModeAndOrderKept ==
  (lastOp'.op = "setClockDivider") =>
     /\ spiSettings'.dMode = spiSettings.dMode
     /\ spiSettings'.bOrder = spiSettings.bOrder

C5_ClockDivider == [](C5_ClockStored) /\ [][C5_ModeAndOrderKept]_vars

C5_Witness ==
  /\ lastOp.op = "setClockDivider"
  /\ lastOp.args[1] = 255
  /\ hal.freq = 48000000
  /\ spiSettings.clk = 188235
  /\ spiSettings.dMode = SPI_MODE_1
  /\ drv[2].args = <<188235, SPI_MODE_1, LSBFIRST>>

----------------------------------------------------------------------------
\* C6: transfer(data) makes exactly one spi_transfer call, of length 1 and
\* carrying data, and returns the byte the driver wrote into the receive
\* buffer (0 if it wrote nothing), whatever status the driver returns;
\* every spi_transfer call of the four transfer functions is given the
\* timeout SPI_TRANSFER_TIMEOUT.
C6_ByteTransfer ==
  /\ lastOp.op = "transfer" =>
       /\ Len(drv) = 1
       /\ drv[1].fn = "spi_transfer"
       /\ drv[1].args[1] = lastOp.args[1]
       /\ drv[1].args[3] = 1
       /\ ret = IF hal.wrote THEN hal.rx ELSE 0
  /\ lastOp.op \in TransferOps =>
       \A i \in DOMAIN drv :
         drv[i].fn = "spi_transfer" /\ drv[i].args[4] = SPI_TRANSFER_TIMEOUT

C6_Witness ==
  /\ lastOp.op = "transfer"
  /\ lastOp.args[1] = 165
  /\ hal.status = "SPI_TIMEOUT"
  /\ hal.wrote /\ hal.rx = 90
  /\ ret = 90

----------------------------------------------------------------------------
\* C7: no operation changes the four pin names the constructor set, and
\* the stored clock, data mode and bit order change only in
\* beginTransaction, setBitOrder, setDataMode and setClockDivider: begin,
\* end, endTransaction, the transfers and the interrupt functions leave
\* them as they are.
C7_Frame ==
  /\ spi' = spi
  /\ Stored(spiSettings') # Stored(spiSettings) => lastOp'.op \in ConfigOps
  /\ lastOp'.op \notin ConfigOps => Stored(spiSettings') = Stored(spiSettings)

C7_PinsAndSettingsFrame == [][C7_Frame]_vars

C7_Witness ==
  /\ lastOp.op = "end"
  /\ Stored(spiSettings) = <<1000000, SPI_MODE_2, LSBFIRST>>
  /\ spi.pin_ssel = digitalPinToPinName(10)

----------------------------------------------------------------------------
----------------------------------------------------------------------------
\* C9: setDataMode(mode) with a mode that is none of SPI_MODE0..SPI_MODE3
\* leaves the stored data mode, clock and bit order unchanged and calls
\* spi_init exactly once, with the settings stored before the call.
C9_InvalidModeStep ==
  (lastOp'.op = "setDataMode" /\ lastOp'.args[1] \notin ValidModes) =>
     /\ Stored(spiSettings') = Stored(spiSettings)
     /\ Len(drv') = 1
     /\ drv'[1].fn = "spi_init"
     /\ drv'[1].args = Stored(spiSettings)

C9_InvalidModeKeepsSettings == [][C9_InvalidModeStep]_vars

C9_Witness ==
  /\ lastOp.op = "setDataMode"
  /\ lastOp.args[1] = 255
  /\ spiSettings.dMode = SPI_MODE_2
  /\ drv = <<spi_init(HAL_SPI_STATE_READY, 188235, SPI_MODE_2, LSBFIRST)>>

====
